---- MODULE Spec2Model ----
(***************************************************************************)
(* Model of the cgroup_analyzer interpretation engine:                     *)
(*   analyzer_core.CgroupAnalyzer   (dataset adapter)                      *)
(*   interpreter.CgroupInterpreter  (anomalies, clusters, patterns, ...)   *)
(*   visualization_utils.fingerprint_workload_patterns                     *)
(*                                                                         *)
(* Numbers.  pandas computes in floating point; the model computes the     *)
(* same expressions in exact integer arithmetic.  A CPU rate r (ms/s) is   *)
(* held as the integer r * 1000 * TimeLcm, a memory rate likewise, and     *)
(* every comparison of the source is cross-multiplied so that it is an     *)
(* integer comparison.  A missing cell (pandas NaN) is the value NaN.      *)
(* Text labels are sequences of one-character strings, so that             *)
(* str.startswith, str.lower and the `in` test are computed, not assumed.  *)
(***************************************************************************)
EXTENDS Integers, Sequences, FiniteSets, TLC

VARIABLES df, cgroups, has_extended_metrics, statsmodels, args, call, outcome,
          pc, buffer, csv, sample_count, appended

\* the collector's state: its position in main(), the row buffer, the rows in
\* the CSV file, sample_count, and the number of rows appended to the buffer
collectorVars == <<pc, buffer, csv, sample_count, appended>>

vars == <<df, cgroups, has_extended_metrics, statsmodels, args, call, outcome,
          pc, buffer, csv, sample_count, appended>>

----------------------------------------------------------------------------
(* Bounds of the explored datasets *)

\* largest number of sample rows of a dataset
MaxRows == 11

\* largest number of level changes of the load within a run
MaxChanges == 2

\* largest number of sample rows of a dataset with an empty cell
MaxBlankRows == 4

\* largest number of samples the collector takes before its duration is over
MaxSamples == 102

\* the scale of a rate: a common multiple of the sampling intervals (2 s, 5 s
\* and 10 s) of the explored datasets
TimeLcm == 2 * 5

----------------------------------------------------------------------------
(* Missing values and elementary series operations (pandas) *)

NaN == 0 - 1000000

IsNa(x) == x = NaN

Range(s) == {s[i] : i \in DOMAIN s}

\* s.iloc[-1]
Last(s) == s[Len(s)]

Max2(a, b) == IF a >= b THEN a ELSE b

Min2(a, b) == IF a <= b THEN a ELSE b

\* p / q > r / s for p, r >= 0 and q, s > 0, compared by whole parts and
\* remainders so that no product leaves the 32-bit integers
RECURSIVE GreaterFrac(_, _, _, _)
GreaterFrac(p, q, r, s) ==
    IF p \div q # r \div s THEN p \div q > r \div s
    ELSE IF p % q = 0 THEN FALSE
    ELSE IF r % s = 0 THEN TRUE
    ELSE GreaterFrac(s, r % s, q, p % q)

RECURSIVE SumSeq(_)
SumSeq(s) == IF s = <<>> THEN 0 ELSE s[1] + SumSeq(Tail(s))

\* Series.fillna(v)
FillNa(s, v) == [i \in DOMAIN s |-> IF IsNa(s[i]) THEN v ELSE s[i]]

\* Series.dropna()
DropNa(s) == SelectSeq(s, LAMBDA x : ~IsNa(x))

\* Series.diff(): first element missing, then successive differences
Diff(s) ==
    [i \in DOMAIN s |->
        IF i = 1 \/ IsNa(s[i]) \/ IsNa(s[i - 1]) THEN NaN ELSE s[i] - s[i - 1]]

\* x.diff() / elapsed_sec.diff() (and / 1000 for CPU), held times TimeLcm
\* (times 1000 * TimeLcm for CPU); the intervals divide TimeLcm
Ratio(dx, dt) ==
    [i \in DOMAIN dx |->
        IF IsNa(dx[i]) \/ IsNa(dt[i]) THEN NaN ELSE (dx[i] * TimeLcm) \div dt[i]]

RateOf(x, elapsed) == Ratio(Diff(x), Diff(elapsed))

\* Series.quantile(num/den), linear interpolation over the non-missing
\* values; the result is den times the quantile, NaN for an empty series
Interpolate(v, num, den) ==
    LET h == num * (Len(v) - 1)
        lo == h \div den
        r == h % den
    IN  IF Len(v) = 0 THEN NaN
        ELSE IF r = 0 THEN den * v[lo + 1]
        ELSE den * v[lo + 1] + r * (v[lo + 2] - v[lo + 1])

Quantile(s, num, den) ==
    Interpolate(SortSeq(DropNa(s), LAMBDA a, b : a < b), num, den)

----------------------------------------------------------------------------
(* analyzer_core.CgroupAnalyzer *)

\* a column name "{cgroup}_{metric}" is the pair <<cgroup, metric>>
ColName(cgroup, metric) == <<cgroup, metric>>

\* order of the cgroup names (str comparison on the names of the model)
NameRank == [a |-> 1, b |-> 2]

\* sorted(list(S)) for a set of names
RECURSIVE Sorted(_)
Sorted(S) ==
    IF S = {} THEN <<>>
    ELSE LET least == CHOOSE x \in S : \A y \in S : NameRank[x] <= NameRank[y]
         IN  <<least>> \o Sorted(S \ {least})

_detect_cgroups(d) ==
    Sorted({c[1] : c \in {x \in Range(d.columns) : x[2] = "cpu_usage_usec"}})

_check_extended_metrics(d) ==
    \E c \in Range(d.columns) : c[2] = "memory_current"

\* mutant of _safe_column: the column as loaded, without fillna
_safe_column_unfilled(d, cgroup, metric) ==
    IF ColName(cgroup, metric) \in Range(d.columns)
    THEN d.data[ColName(cgroup, metric)]
    ELSE [i \in 1..Len(d.elapsed_sec) |-> 0]

_safe_column(d, cgroup, metric) ==
    IF ColName(cgroup, metric) \in Range(d.columns)
    THEN FillNa(d.data[ColName(cgroup, metric)], 0)
    ELSE [i \in 1..Len(d.elapsed_sec) |-> 0]

----------------------------------------------------------------------------
(* interpreter.CgroupInterpreter.detect_anomalies *)

\* a call either returns a value or raises
Returned(v) == [raised |-> "none", value |-> v]

Raised(e) == [raised |-> e, value |-> <<>>]

NoEvents == [timestamps |-> <<>>, values |-> <<>>, severity |-> <<>>]

AppendEvent(ev, t, v, s) ==
    [timestamps |-> Append(ev.timestamps, t),
     values |-> Append(ev.values, v),
     severity |-> Append(ev.severity, s)]

\* mutant of SeverityOf: the "high" test made first, which hides "extreme"
SeverityOfSwapped(val, q1x4, q3x4) ==
    IF IsNa(val) THEN ""
    ELSE IF 8 * val > 2 * q3x4 + 3 * (q3x4 - q1x4) THEN "high"
    ELSE IF 4 * val > q3x4 + 3 * (q3x4 - q1x4) THEN "extreme"
    ELSE ""

\* mutant of SeverityOf: >= in place of >
SeverityOfInclusive(val, q1x4, q3x4) ==
    IF IsNa(val) THEN ""
    ELSE IF 4 * val >= q3x4 + 3 * (q3x4 - q1x4) THEN "extreme"
    ELSE IF 8 * val >= 2 * q3x4 + 3 * (q3x4 - q1x4) THEN "high"
    ELSE ""

\* severity of one sample against the bounds of its series, "" for no event;
\* q1 and q3 are 4 times the quartiles:
\*   val > q3 + 3.0 * iqr  <=>  4 val > q3x4 + 3 (q3x4 - q1x4)
\*   val > q3 + 1.5 * iqr  <=>  8 val > 2 q3x4 + 3 (q3x4 - q1x4)
SeverityOf(val, q1x4, q3x4) ==
    IF IsNa(val) THEN ""
    ELSE IF 4 * val > q3x4 + 3 * (q3x4 - q1x4) THEN "extreme"
    ELSE IF 8 * val > 2 * q3x4 + 3 * (q3x4 - q1x4) THEN "high"
    ELSE ""

\* mutant of FlagLoop: the loop stops one sample early
RECURSIVE FlagLoopSkipsLast(_, _, _, _, _, _)
FlagLoopSkipsLast(rate, elapsed, q1x4, q3x4, i, ev) ==
    IF i >= Len(rate) THEN ev
    ELSE LET s == SeverityOf(rate[i], q1x4, q3x4)
         IN  FlagLoopSkipsLast(rate, elapsed, q1x4, q3x4, i + 1,
                 IF s = "" THEN ev ELSE AppendEvent(ev, elapsed[i], rate[i], s))

\* the loop `for i, val in enumerate(rate)` of detect_anomalies
RECURSIVE FlagLoop(_, _, _, _, _, _)
FlagLoop(rate, elapsed, q1x4, q3x4, i, ev) ==
    IF i > Len(rate) THEN ev
    ELSE LET s == SeverityOf(rate[i], q1x4, q3x4)
         IN  FlagLoop(rate, elapsed, q1x4, q3x4, i + 1,
                      IF s = "" THEN ev ELSE AppendEvent(ev, elapsed[i], rate[i], s))

\* mutant of FlagSeries: the quartiles taken over the series without its last
\* sample instead of the whole series
FlagSeriesBeforeLast(rate, elapsed) ==
    FlagLoop(rate, elapsed,
             Quantile(SubSeq(rate, 1, Len(rate) - 1), 1, 4),
             Quantile(SubSeq(rate, 1, Len(rate) - 1), 3, 4), 1, NoEvents)

\* quartiles, bounds and the flagging loop over one rate series
FlagSeries(rate, elapsed) ==
    FlagLoop(rate, elapsed, Quantile(rate, 1, 4), Quantile(rate, 3, 4), 1, NoEvents)

CpuRate(d, cgroup) ==
    RateOf(_safe_column(d, cgroup, "cpu_usage_usec"), d.elapsed_sec)

MemoryRate(d, cgroup) ==
    RateOf(_safe_column(d, cgroup, "memory_current"), d.elapsed_sec)

\* the entry of one cgroup
CgroupAnomalies(d, ext, cgroup) ==
    [cpu |-> FlagSeries(CpuRate(d, cgroup), d.elapsed_sec),
     memory |-> IF ext /\ Len(MemoryRate(d, cgroup)) > 0
                THEN FlagSeries(MemoryRate(d, cgroup), d.elapsed_sec)
                ELSE NoEvents]

\* mutant of detect_anomalies: no length guard, and quartiles taken with a
\* routine that raises on a series without values
detect_anomalies_unguarded(d, cgs, ext) ==
    IF \E c \in Range(cgs) : DropNa(CpuRate(d, c)) = <<>>
    THEN Raised("IndexError")
    ELSE Returned([c \in Range(cgs) |-> CgroupAnomalies(d, ext, c)])

\* `if len(usage_rate) < 2: continue` leaves the cgroup without an entry
detect_anomalies(d, cgs, ext) ==
    LET kept == {c \in Range(cgs) : ~(Len(CpuRate(d, c)) < 2)}
    IN  Returned([c \in kept |-> CgroupAnomalies(d, ext, c)])

----------------------------------------------------------------------------
(* interpreter.CgroupInterpreter.cluster_anomalies *)

MAX_TIME_GAP == 10

NewCluster(ev, i) ==
    [start_time |-> ev.timestamps[i],
     end_time |-> ev.timestamps[i],
     max_value |-> ev.values[i],
     timestamps |-> <<ev.timestamps[i]>>,
     values |-> <<ev.values[i]>>,
     severities |-> <<ev.severity[i]>>]

\* mutant of ExtendCluster: max_value keeps the first member's value
ExtendClusterKeepsMax(cur, ev, i) ==
    [start_time |-> cur.start_time,
     end_time |-> ev.timestamps[i],
     max_value |-> cur.max_value,
     timestamps |-> Append(cur.timestamps, ev.timestamps[i]),
     values |-> Append(cur.values, ev.values[i]),
     severities |-> Append(cur.severities, ev.severity[i])]

ExtendCluster(cur, ev, i) ==
    [start_time |-> cur.start_time,
     end_time |-> ev.timestamps[i],
     max_value |-> Max2(cur.max_value, ev.values[i]),
     timestamps |-> Append(cur.timestamps, ev.timestamps[i]),
     values |-> Append(cur.values, ev.values[i]),
     severities |-> Append(cur.severities, ev.severity[i])]

\* mutant of JoinsCluster: <= in place of <
JoinsClusterInclusive(cur, ev, i) == ev.timestamps[i] - cur.end_time <= MAX_TIME_GAP

\* does event i join the open cluster
JoinsCluster(cur, ev, i) == ev.timestamps[i] - cur.end_time < MAX_TIME_GAP

\* mutant of ClusterLoop: the last open cluster is not appended
RECURSIVE ClusterLoopNoFlush(_, _, _, _)
ClusterLoopNoFlush(ev, i, cur, done) ==
    IF i > Len(ev.timestamps) THEN done
    ELSE IF JoinsCluster(cur, ev, i)
         THEN ClusterLoopNoFlush(ev, i + 1, ExtendCluster(cur, ev, i), done)
         ELSE ClusterLoopNoFlush(ev, i + 1, NewCluster(ev, i), Append(done, cur))

\* the loop `for i in range(1, len(timestamps))` and the final append
RECURSIVE ClusterLoop(_, _, _, _)
ClusterLoop(ev, i, cur, done) ==
    IF i > Len(ev.timestamps) THEN Append(done, cur)
    ELSE IF JoinsCluster(cur, ev, i)
         THEN ClusterLoop(ev, i + 1, ExtendCluster(cur, ev, i), done)
         ELSE ClusterLoop(ev, i + 1, NewCluster(ev, i), Append(done, cur))

ClusterEvents(ev) ==
    IF ev.timestamps = <<>> THEN <<>>
    ELSE ClusterLoop(ev, 2, NewCluster(ev, 1), <<>>)

\* anomalies[cgroup] raises KeyError for a cgroup detect_anomalies skipped
cluster_anomalies(d, cgs, ext) ==
    LET anomalies == detect_anomalies(d, cgs, ext).value
    IN  IF \E c \in Range(cgs) : c \notin DOMAIN anomalies
        THEN Raised("KeyError")
        ELSE Returned([c \in Range(cgs) |->
                 [cpu |-> ClusterEvents(anomalies[c].cpu),
                  memory |-> IF ext THEN ClusterEvents(anomalies[c].memory)
                             ELSE <<>>]])

----------------------------------------------------------------------------
(* Text: a str is the sequence of its characters *)

UpperCase == <<"A", "B", "C", "D", "E", "F", "G", "H", "I", "J", "K", "L", "M", "N", "O", "P", "Q", "R", "S", "T", "U", "V", "W", "X", "Y", "Z">>

LowerCase == <<"a", "b", "c", "d", "e", "f", "g", "h", "i", "j", "k", "l", "m", "n", "o", "p", "q", "r", "s", "t", "u", "v", "w", "x", "y", "z">>

\* the lower-case letter of each upper-case letter
LowerOf ==
    [u \in Range(UpperCase) |->
        LowerCase[CHOOSE k \in DOMAIN UpperCase : UpperCase[k] = u]]

\* str.lower()
Lower(t) == [i \in DOMAIN t |-> IF t[i] \in DOMAIN LowerOf THEN LowerOf[t[i]] ELSE t[i]]

\* str.startswith(prefix)
StartsWith(t, prefix) ==
    Len(prefix) <= Len(t) /\ SubSeq(t, 1, Len(prefix)) = prefix

\* `sub in t`
Contains(t, sub) ==
    \E i \in 0..(Len(t) - Len(sub)) : SubSeq(t, i + 1, i + Len(sub)) = sub

DigitChars == <<"0", "1", "2", "3", "4", "5", "6", "7", "8", "9">>

\* str(k) for k >= 0
RECURSIVE Str(_)
Str(k) ==
    IF k < 10 THEN <<DigitChars[k + 1]>>
    ELSE Str(k \div 10) \o <<DigitChars[(k % 10) + 1]>>

Unknown == <<"u", "n", "k", "n", "o", "w", "n">>

Bursty == <<"b", "u", "r", "s", "t", "y">>

Variable == <<"v", "a", "r", "i", "a", "b", "l", "e">>

ModerateVariability == <<"m", "o", "d", "e", "r", "a", "t", "e", " ", "v", "a", "r", "i", "a", "b", "i", "l", "i", "t", "y">>

Stable == <<"s", "t", "a", "b", "l", "e">>

\* f"{cpu_pattern} with periodicity (~{period_idx} samples)"
WithPeriodicity(pattern, k) ==
    pattern \o <<" ", "w", "i", "t", "h", " ", "p", "e", "r", "i", "o", "d", "i", "c", "i", "t", "y", " ", "(", "~">> \o Str(k) \o <<" ", "s", "a", "m", "p", "l", "e", "s", ")">>

RapidlyIncreasing == <<"r", "a", "p", "i", "d", "l", "y", " ", "i", "n", "c", "r", "e", "a", "s", "i", "n", "g">>

GraduallyIncreasing == <<"g", "r", "a", "d", "u", "a", "l", "l", "y", " ", "i", "n", "c", "r", "e", "a", "s", "i", "n", "g">>

Decreasing == <<"d", "e", "c", "r", "e", "a", "s", "i", "n", "g">>

SpikePatterns == <<"s", "p", "i", "k", "e", " ", "p", "a", "t", "t", "e", "r", "n", "s">>

Oscillating == <<"o", "s", "c", "i", "l", "l", "a", "t", "i", "n", "g">>

----------------------------------------------------------------------------
(* interpreter.CgroupInterpreter.identify_usage_patterns *)

SumSq(s) == SumSeq([i \in DOMAIN s |-> s[i] * s[i]])

\* mutant of CvAbove: the population deviation (ddof = 0)
CvAbovePopulation(v, num, den) ==
    LET n == Len(v)
        S == SumSeq(v)
        Q == SumSq(v)
    IN  /\ S > 0
        /\ den * den * (n * Q - S * S) > num * num * S * S

\* std / mean > num / den over the non-missing values v (std with ddof = 1),
\* the source's cv being 0 when the mean is not positive:
\*   var / mean^2 = n (n Q - S^2) / ((n - 1) S^2),  S = sum v, Q = sum v^2
CvAbove(v, num, den) ==
    LET n == Len(v)
        S == SumSeq(v)
        Q == SumSq(v)
    IN  /\ S > 0
        /\ GreaterFrac(n * (n * Q - S * S), (n - 1) * S * S, num * num, den * den)

\* len(usage_rate[usage_rate > mean_usage * 2]) > len(usage_rate) * 0.1
ManyAboveTwiceMean(rate) ==
    LET v == DropNa(rate)
        above == {i \in DOMAIN v : Len(v) * v[i] > 2 * SumSeq(v)}
    IN  10 * Cardinality(above) > Len(rate)

\* the cv decision of the CPU pattern
CpuBasePattern(rate) ==
    IF CvAbove(DropNa(rate), 3, 2)
    THEN IF ManyAboveTwiceMean(rate) THEN Bursty ELSE Variable
    ELSE IF CvAbove(DropNa(rate), 1, 2) THEN ModerateVariability
    ELSE Stable

\* statsmodels acf (demeaned, unadjusted): N^3 times the autocovariance at lag k
Acov(x, k) ==
    LET N == Len(x)
        S == SumSeq(x)
    IN  SumSeq([t \in 1..(N - k) |-> (N * x[t] - S) * (N * x[t + k] - S)])

\* lag_acf[k] > 0.5; a constant series gives 0/0, which compares false
AcfAboveHalf(x, k) == Acov(x, 0) > 0 /\ 2 * Acov(x, k) > Acov(x, 0)

\* the first lag in 1..nlags whose autocorrelation exceeds 0.5, 0 when none
PeriodIdx(rate) ==
    LET x == FillNa(rate, 0)
        nlags == Min2(50, Len(rate) \div 2)
        lags == {k \in 1..nlags : AcfAboveHalf(x, k)}
    IN  IF lags = {} THEN 0 ELSE CHOOSE k \in lags : \A j \in lags : k <= j

\* mutant of AnnotatePeriodicity: a detected period replaces the label
AnnotatePeriodicityOverrides(pattern, rate, installed) ==
    IF installed /\ PeriodIdx(rate) > 0
    THEN WithPeriodicity(<<"p", "e", "r", "i", "o", "d", "i", "c">>, PeriodIdx(rate))
    ELSE pattern

\* the try block: without statsmodels the import raises and the label stays
AnnotatePeriodicity(pattern, rate, installed) ==
    IF installed /\ PeriodIdx(rate) > 0
    THEN WithPeriodicity(pattern, PeriodIdx(rate))
    ELSE pattern

\* mutant of CpuPattern: 10 samples are taken as enough
CpuPatternTenSamples(d, cgroup, installed) ==
    LET usage == _safe_column(d, cgroup, "cpu_usage_usec")
        rate == RateOf(usage, d.elapsed_sec)
    IN  IF Len(usage) >= 10
        THEN AnnotatePeriodicity(CpuBasePattern(rate), rate, installed)
        ELSE Unknown

CpuPattern(d, cgroup, installed) ==
    LET usage == _safe_column(d, cgroup, "cpu_usage_usec")
        rate == RateOf(usage, d.elapsed_sec)
    IN  IF Len(usage) > 10
        THEN AnnotatePeriodicity(CpuBasePattern(rate), rate, installed)
        ELSE Unknown

\* ((memory_diffs.shift(1) * memory_diffs) < 0).sum()
SignChanges(mem) ==
    LET dm == Diff(mem)
    IN  Cardinality({i \in 2..Len(dm) :
            ~IsNa(dm[i - 1]) /\ ~IsNa(dm[i]) /\ dm[i - 1] * dm[i] < 0})

SeqMax(s) == CHOOSE x \in Range(s) : \A y \in Range(s) : y <= x

\* mutant of MemoryTree: the spike test made before the growth tests
MemoryTreeSpikeFirst(mem, elapsed) ==
    LET first == mem[1]
        last == mem[Len(mem)]
    IN  IF Len(mem) * SeqMax(mem) > 2 * SumSeq(mem) THEN SpikePatterns
        ELSE IF 2 * last > 3 * first
        THEN IF 2 * (last - first) > Max2(1, elapsed[Len(elapsed)])
             THEN RapidlyIncreasing ELSE GraduallyIncreasing
        ELSE IF 2 * last < first THEN Decreasing
        ELSE IF 5 * SignChanges(mem) > 2 * Len(mem) THEN Oscillating
        ELSE Stable

\* the decision tree over memory_mb (MiB) of a series of more than 10 samples:
\*   growth_rate = (last - first) / max(1, elapsed_sec.iloc[-1]) > 0.5
MemoryTree(mem, elapsed) ==
    LET first == mem[1]
        last == mem[Len(mem)]
    IN  IF 2 * last > 3 * first
        THEN IF 2 * (last - first) > Max2(1, elapsed[Len(elapsed)])
             THEN RapidlyIncreasing ELSE GraduallyIncreasing
        ELSE IF 2 * last < first THEN Decreasing
        ELSE IF Len(mem) * SeqMax(mem) > 2 * SumSeq(mem) THEN SpikePatterns
        ELSE IF 5 * SignChanges(mem) > 2 * Len(mem) THEN Oscillating
        ELSE Stable

\* mutant of MemoryPattern: a cgroup without a memory_current column of its
\* own is left "unknown"
MemoryPatternOwnColumn(d, ext, cgroup) ==
    LET memory == _safe_column(d, cgroup, "memory_current")
    IN  IF ext /\ ColName(cgroup, "memory_current") \in Range(d.columns)
           /\ Len(memory) > 10
        THEN MemoryTree(memory, d.elapsed_sec)
        ELSE Unknown

MemoryPattern(d, ext, cgroup) ==
    LET memory == _safe_column(d, cgroup, "memory_current")
    IN  IF ext /\ Len(memory) > 10 THEN MemoryTree(memory, d.elapsed_sec)
        ELSE Unknown

identify_usage_patterns(d, cgs, ext, installed) ==
    Returned([c \in Range(cgs) |->
                 [cpu_pattern |-> CpuPattern(d, c, installed),
                  memory_pattern |-> MemoryPattern(d, ext, c)]])

----------------------------------------------------------------------------
(* interpreter.CgroupInterpreter.calculate_advanced_statistics *)

\* std / max(mean, 0.001) < 0.1 over a series of MiB values (ddof = 1):
\*   mean >= 0.001:  100 var < mean^2  <=>  100 n (n Q - S^2) < (n - 1) S^2
\*   mean <  0.001:  var < 0.0001^2    <=>  10^8 (n Q - S^2) < n (n - 1)
CvBelowTenth(v) ==
    LET n == Len(v)
        S == SumSeq(v)
        Q == SumSq(v)
    IN  IF 1000 * S >= n
        THEN 100 * n * (n * Q - S * S) < (n - 1) * S * S
        ELSE 10000 * 10000 * (n * Q - S * S) < n * (n - 1)

\* the keys of statistics[cgroup]['memory']: filled only with extended metrics
\* and more than one sample
MemoryStatsKeys(d, ext, cgroup) ==
    IF ext /\ Len(_safe_column(d, cgroup, "memory_current")) > 1
    THEN {"mean", "median", "std", "min", "max", "coefficient_of_variation",
          "p95", "p99", "growth_rate"}
    ELSE {}

----------------------------------------------------------------------------
(* visualization_utils.fingerprint_workload_patterns *)

\* np.correlate(x - mean, x - mean, 'full')[n - 1 + k], times n^2
Autocorr(x, k) == Acov(x, k)

\* autocorr[k] > 0.2, the normaliser being std^2 * n (ddof = 1):
\*   c_k / (n c_0 / (n - 1)) > 0.2  <=>  5 (n - 1) c_k > n c_0
AutocorrAboveFifth(x, k) ==
    /\ Acov(x, 0) > 0
    /\ Acov(x, k) > 0
    /\ GreaterFrac(Acov(x, k), Acov(x, 0), Len(x), 5 * (Len(x) - 1))

\* the local maxima above 0.2 among the lags 1 .. max_lag - 1
Peaks(x) ==
    LET max_lag == Min2(Len(x) - 1, 500)
    IN  {k \in 1..(max_lag - 1) :
            /\ Acov(x, k) > Acov(x, k - 1)
            /\ Acov(x, k) > Acov(x, k + 1)
            /\ AutocorrAboveFifth(x, k)}

\* peaks.sort(key = value, reverse = True)[0][0]: the highest peak, the
\* earliest of equals; 0 without a peak or with 50 samples or fewer
DominantPeriod(x) ==
    IF Len(x) > 50 /\ Peaks(x) # {}
    THEN CHOOSE k \in Peaks(x) :
             \A j \in Peaks(x) :
                 Acov(x, j) < Acov(x, k) \/ (Acov(x, j) = Acov(x, k) /\ k <= j)
    ELSE 0

\* burstiness = p95 / max(median, 0.001) as a fraction; 0.001 ms/s is TimeLcm
\* in the scale of a rate
Burstiness(x) ==
    [num |-> Quantile(x, 19, 20),
     den |-> 10 * Max2(Quantile(x, 1, 2), 2 * TimeLcm)]

\* system_time / max(user_time, 1) if user_time > 0 else 0, as a fraction
CycleRatio(user_time, system_time) ==
    IF user_time > 0 THEN [num |-> system_time, den |-> Max2(user_time, 1)]
    ELSE [num |-> 0, den |-> 1]

\* fraction > p / q, for a positive denominator
Above(f, p, q) == q * f.num > p * f.den

Periodic == <<"P", "e", "r", "i", "o", "d", "i", "c">>

Continuous == <<"C", "o", "n", "t", "i", "n", "u", "o", "u", "s">>

BatchProcessing == <<"B", "a", "t", "c", "h", " ", "p", "r", "o", "c", "e", "s", "s", "i", "n", "g">>

VariableLoad == <<"V", "a", "r", "i", "a", "b", "l", "e">>

\* mutant of WorkloadType: "with bursts" from burstiness >= 5
WorkloadTypeInclusiveBursts(pattern_type, periodic, burstiness, cycle_ratio) ==
    IF periodic
    THEN IF burstiness.num >= 5 * burstiness.den THEN Periodic \o <<" ", "w", "i", "t", "h", " ", "b", "u", "r", "s", "t", "s">> ELSE Periodic
    ELSE IF StartsWith(pattern_type, <<"S", "t", "e", "a", "d", "y">>)
    THEN IF Above(cycle_ratio, 4, 5) THEN Continuous \o <<" ", "s", "y", "s", "t", "e", "m", "-", "i", "n", "t", "e", "n", "s", "i", "v", "e">>
         ELSE Continuous \o <<" ", "u", "s", "e", "r", "-", "i", "n", "t", "e", "n", "s", "i", "v", "e">>
    ELSE IF StartsWith(pattern_type, <<"B", "u", "r", "s", "t", "y">>) THEN BatchProcessing
    ELSE IF Above(cycle_ratio, 4, 5) THEN VariableLoad \o <<" ", "I", "/", "O", "-", "b", "o", "u", "n", "d">>
    ELSE VariableLoad \o <<" ", "C", "P", "U", "-", "b", "o", "u", "n", "d">>

\* the if / elif chain that names the workload
WorkloadType(pattern_type, periodic, burstiness, cycle_ratio) ==
    IF periodic
    THEN IF Above(burstiness, 5, 1) THEN Periodic \o <<" ", "w", "i", "t", "h", " ", "b", "u", "r", "s", "t", "s">> ELSE Periodic
    ELSE IF StartsWith(pattern_type, <<"S", "t", "e", "a", "d", "y">>)
    THEN IF Above(cycle_ratio, 4, 5) THEN Continuous \o <<" ", "s", "y", "s", "t", "e", "m", "-", "i", "n", "t", "e", "n", "s", "i", "v", "e">>
         ELSE Continuous \o <<" ", "u", "s", "e", "r", "-", "i", "n", "t", "e", "n", "s", "i", "v", "e">>
    ELSE IF StartsWith(pattern_type, <<"B", "u", "r", "s", "t", "y">>) THEN BatchProcessing
    ELSE IF Above(cycle_ratio, 4, 5) THEN VariableLoad \o <<" ", "I", "/", "O", "-", "b", "o", "u", "n", "d">>
    ELSE VariableLoad \o <<" ", "C", "P", "U", "-", "b", "o", "u", "n", "d">>

\* the memory_delta branch
MemoryDeltaType(memory) ==
    LET delta == Diff(memory)
        pos == Cardinality({i \in DOMAIN delta : ~IsNa(delta[i]) /\ delta[i] > 0})
        neg == Cardinality({i \in DOMAIN delta : ~IsNa(delta[i]) /\ delta[i] < 0})
    IN  IF pos > 0 /\ neg > 0
        THEN IF 10 * (Max2(pos, neg) - Min2(pos, neg)) < 3 * Max2(pos, neg)
             THEN "Dynamic allocation/deallocation"
             ELSE "Gradually expanding"
        ELSE "N/A"

\* memory_type, or "KeyError" when mem_stats has no coefficient_of_variation
MemoryType(d, ext, cgroup, memory_pattern) ==
    LET memory == _safe_column(d, cgroup, "memory_current")
    IN  IF ~ext THEN "N/A"
        ELSE IF memory_pattern = <<"R", "a", "p", "i", "d", "l", "y", " ", "g", "r", "o", "w", "i", "n", "g">> THEN "Memory leaking"
        ELSE IF "coefficient_of_variation" \notin MemoryStatsKeys(d, ext, cgroup)
        THEN "KeyError"
        ELSE IF CvBelowTenth(memory) THEN "Static memory"
        ELSE MemoryDeltaType(memory)

\* burst_pct = burst_time.iloc[-1] / max(usage, 1) * 100 as a fraction
BurstPct(d, cgroup) ==
    [num |-> 100 * Last(_safe_column(d, cgroup, "cpu_burst_usec")),
     den |-> Max2(Last(_safe_column(d, cgroup, "cpu_usage_usec")), 1)]

\* nr_bursts.max() > 0
HasBursts(d, cgroup) ==
    \E x \in Range(_safe_column(d, cgroup, "cpu_nr_bursts")) : x > 0

\* mutant of BurstTendency: >= in place of >
BurstTendencyInclusive(d, cgroup) ==
    IF ~HasBursts(d, cgroup) THEN "N/A"
    ELSE IF BurstPct(d, cgroup).num >= 30 * BurstPct(d, cgroup).den
    THEN "High burst utilization"
    ELSE IF BurstPct(d, cgroup).num >= 10 * BurstPct(d, cgroup).den
    THEN "Moderate burst utilization"
    ELSE "Low burst utilization"

BurstTendency(d, cgroup) ==
    IF ~HasBursts(d, cgroup) THEN "N/A"
    ELSE IF Above(BurstPct(d, cgroup), 30, 1) THEN "High burst utilization"
    ELSE IF Above(BurstPct(d, cgroup), 10, 1) THEN "Moderate burst utilization"
    ELSE "Low burst utilization"

\* mutant of WithBurstSuffix: the label is not looked at
WithBurstSuffixAlways(d, cgroup, workload_type) ==
    IF HasBursts(d, cgroup) /\ Above(BurstPct(d, cgroup), 30, 1)
    THEN workload_type \o <<" ", "(", "b", "u", "r", "s", "t", "-", "h", "e", "a", "v", "y", ")">>
    ELSE workload_type

\* the " (burst-heavy)" suffix
WithBurstSuffix(d, cgroup, workload_type) ==
    IF /\ HasBursts(d, cgroup)
       /\ Above(BurstPct(d, cgroup), 30, 1)
       /\ ~Contains(Lower(workload_type), <<"b", "u", "r", "s", "t">>)
    THEN workload_type \o <<" ", "(", "b", "u", "r", "s", "t", "-", "h", "e", "a", "v", "y", ")">>
    ELSE workload_type

\* the fingerprint of one cgroup of a dataset with at least one row
Fingerprint(d, ext, cgroup, patterns) ==
    LET usage_rate == FillNa(CpuRate(d, cgroup), 0)
        dominant_period == DominantPeriod(usage_rate)
        has_periodicity == dominant_period > 0
        burstiness == Burstiness(usage_rate)
        cycle_ratio == CycleRatio(Last(_safe_column(d, cgroup, "cpu_user_usec")),
                                  Last(_safe_column(d, cgroup, "cpu_system_usec")))
        workload_type == WorkloadType(patterns[cgroup].cpu_pattern, has_periodicity,
                                      burstiness, cycle_ratio)
    IN  [workload_type |-> WithBurstSuffix(d, cgroup, workload_type),
         memory_behavior |-> MemoryType(d, ext, cgroup, patterns[cgroup].memory_pattern),
         burstiness |-> burstiness,
         cpu_burst_tendency |-> BurstTendency(d, cgroup),
         cpu_burst_score |-> IF HasBursts(d, cgroup) THEN BurstPct(d, cgroup)
                             ELSE [num |-> 0, den |-> 1],
         cpu_system_user_ratio |-> cycle_ratio,
         has_periodicity |-> has_periodicity,
         dominant_period_lag |-> dominant_period]

\* .iloc[-1] raises IndexError on an empty table; the missing statistics key
\* raises KeyError
fingerprint_workload_patterns(d, cgs, ext, installed) ==
    LET patterns == identify_usage_patterns(d, cgs, ext, installed).value
    IN  IF cgs # <<>> /\ Len(d.elapsed_sec) = 0 THEN Raised("IndexError")
        ELSE IF \E c \in Range(cgs) :
                    MemoryType(d, ext, c, patterns[c].memory_pattern) = "KeyError"
        THEN Raised("KeyError")
        ELSE Returned([c \in Range(cgs) |-> Fingerprint(d, ext, c, patterns)])

----------------------------------------------------------------------------
(* interpreter.CgroupInterpreter.generate_insights *)

\* a message is named by its leading words; the figures it quotes are left out
NoIssues == "No significant issues detected"

\* the messages of the `if nr_bursts.iloc[-1] > 0` block
BurstInsights(d, cgroup) ==
    LET total_bursts == Last(_safe_column(d, cgroup, "cpu_nr_bursts"))
        burst_time == Last(_safe_column(d, cgroup, "cpu_burst_usec"))
        usage == Last(_safe_column(d, cgroup, "cpu_usage_usec"))
    IN  IF total_bursts > 0
        THEN (IF total_bursts > 50 THEN <<"High number of CPU bursts detected">>
              ELSE <<>>)
             \o (IF burst_time > 10 * 1000 * Max2(total_bursts, 1)
                 THEN <<"Long average burst duration">> ELSE <<>>)
             \o (IF (usage = 0 /\ burst_time > 0)
                    \/ (usage > 0 /\ 100 * burst_time > 30 * usage)
                 THEN <<"Significant portion of CPU time spent in burst mode">>
                 ELSE <<>>)
        ELSE <<>>

\* the message of an increasing memory pattern, by the limit memory_max
IncreasingInsight(d, cgroup) ==
    LET mem_current == Last(_safe_column(d, cgroup, "memory_current"))
        mem_limit == Last(_safe_column(d, cgroup, "memory_max"))
    IN  IF mem_limit > 0
        THEN IF 100 * mem_current > 80 * mem_limit
             THEN <<"Memory usage is high and increasing">>
             ELSE <<"Memory usage is increasing">>
        ELSE <<"Memory usage is increasing. No memory limit set">>

MemoryInsights(d, cgroup, mem_anomaly_count, mem_pattern) ==
    (IF mem_anomaly_count > 5 THEN <<"High number of memory anomalies detected">>
     ELSE <<>>)
    \o (IF Contains(Lower(mem_pattern), <<"i", "n", "c", "r", "e", "a", "s", "i", "n", "g">>) THEN IncreasingInsight(d, cgroup)
        ELSE <<>>)
    \o (IF Contains(Lower(mem_pattern), <<"s", "p", "i", "k", "e">>)
        THEN <<"Memory usage shows spike patterns">> ELSE <<>>)

\* the messages of the CPU rules
CpuInsights(cpu_anomaly_count, cpu_pattern) ==
    (IF cpu_anomaly_count > 10 THEN <<"High number of CPU anomalies detected">>
     ELSE <<>>)
    \o (IF Contains(cpu_pattern, <<"b", "u", "r", "s", "t", "y">>)
        THEN <<"CPU usage shows bursty pattern">> ELSE <<>>)
    \o (IF Contains(cpu_pattern, <<"p", "e", "r", "i", "o", "d", "i", "c", "i", "t", "y">>)
        THEN <<"Periodic CPU usage detected">> ELSE <<>>)

\* mutant of OrNoIssues: the sentinel closes every list
OrNoIssuesAlways(found) == found \o <<NoIssues>>

\* "No significant issues detected" when no rule has fired
OrNoIssues(found) == IF found = <<>> THEN <<NoIssues>> ELSE found

\* the list of one cgroup, from its entries of the three analyses.
\* The pressure block reads columns named "pressure_...", which the table of
\* "{cgroup}_{metric}" columns does not have
CgroupInsights(d, ext, cgroup, entry, pattern) ==
    OrNoIssues(
        CpuInsights(Len(entry.cpu.timestamps), Lower(pattern.cpu_pattern))
        \o BurstInsights(d, cgroup)
        \o (IF ext
            THEN MemoryInsights(d, cgroup, Len(entry.memory.timestamps),
                                pattern.memory_pattern)
            ELSE <<>>))

\* anomalies.get(cgroup, {}) tolerates a missing entry
EntryOf(anomalies, cgroup) ==
    IF cgroup \in DOMAIN anomalies THEN anomalies[cgroup]
    ELSE [cpu |-> NoEvents, memory |-> NoEvents]

InsightsFrom(d, cgs, ext, anomalies, clusters, patterns) ==
    IF clusters.raised # "none" THEN Raised(clusters.raised)
    ELSE Returned([c \in Range(cgs) |->
                      CgroupInsights(d, ext, c, EntryOf(anomalies, c), patterns[c])])

\* cluster_anomalies is called second and its KeyError propagates
generate_insights(d, cgs, ext, installed) ==
    InsightsFrom(d, cgs, ext,
                 detect_anomalies(d, cgs, ext).value,
                 cluster_anomalies(d, cgs, ext),
                 identify_usage_patterns(d, cgs, ext, installed).value)

----------------------------------------------------------------------------
(* The datasets explored: what the collector writes and read_csv loads *)

\* number of level changes of a piecewise-constant load
Changes(bits) == Cardinality({i \in 2..Len(bits) : bits[i] # bits[i - 1]})

\* a cumulative counter: row 1 holds `first`, row i + 1 adds inc[i]
Counter(first, inc, n) ==
    [i \in 1..n |-> first + SumSeq(SubSeq(inc, 1, i - 1))]

Reverse(s) == [i \in DOMAIN s |-> s[Len(s) + 1 - i]]

\* CPU time consumed between two samples: level[1] when idle-ish, level[1] +
\* level[2] under load (usec per interval)
Increments(bits, level) == [i \in DOMAIN bits |-> level[1] + bits[i] * level[2]]

Scale(s, k) == [i \in DOMAIN s |-> k * s[i]]

\* a counter whose file can no longer be read at the last sample (the cgroup
\* is gone): read_file falls back to "0"
Vanished(s) == [i \in DOMAIN s |-> IF i = Len(s) /\ i > 1 THEN 0 ELSE s[i]]

\* the table: elapsed_sec, the ordered column names and the cells.
\* memory_current is held in MiB (the source divides the bytes by 1024 * 1024)
MkDf(n, bits, shape) ==
    LET counted(b) == Counter(shape.before, Increments(b, shape.level), n)
        usageA == IF shape.vanishes THEN Vanished(counted(bits)) ELSE counted(bits)
        usageB == counted(Reverse(bits))
        cpuCols(c) ==
            <<ColName(c, "cpu_usage_usec")>>
            \o (IF shape.split = <<>> THEN <<>>
                ELSE <<ColName(c, "cpu_user_usec"), ColName(c, "cpu_system_usec")>>)
        memCols(c) ==
            IF shape.memory = "absent" THEN <<>> ELSE <<ColName(c, "memory_current")>>
        columns == cpuCols("a") \o memCols("a")
                   \o (IF shape.second THEN cpuCols("b") ELSE <<>>)
        usage(c) == IF c = "a" THEN usageA ELSE usageB
        cell(col) ==
            IF col[2] = "cpu_usage_usec" THEN usage(col[1])
            ELSE IF col[2] = "cpu_user_usec" THEN Scale(usage(col[1]), shape.split[1])
            ELSE IF col[2] = "cpu_system_usec" THEN Scale(usage(col[1]), shape.split[2])
            ELSE IF shape.memory = "flat" THEN [i \in 1..n |-> 64]
            ELSE [i \in 1..n |-> 64 + usage(col[1])[i]]
    IN  [elapsed_sec |-> [i \in 1..n |-> (i - 1) * shape.interval],
         columns |-> columns,
         data |-> [col \in Range(columns) |-> cell(col)]]

\* the shapes of the explored datasets: the CPU time per interval when idle
\* and the extra time under load, the sampling interval, the memory column
\* (absent, constant, or growing with the CPU time), the user : system split
\* of the CPU time (<<>> when the columns are absent), a second cgroup "b"
\* whose load is that of "a" reversed in time, whether the cgroup is gone at
\* the last sample, and the CPU time it had used before the first sample
Shapes ==
    {[level |-> <<0, 1>>, interval |-> 5, memory |-> "absent", split |-> <<>>,
      second |-> FALSE, vanishes |-> FALSE, before |-> 0],
     [level |-> <<2, 3>>, interval |-> 2, memory |-> "mirror", split |-> <<1, 1>>,
      second |-> TRUE, vanishes |-> FALSE, before |-> 0],
     [level |-> <<0, 1>>, interval |-> 10, memory |-> "flat", split |-> <<2, 1>>,
      second |-> FALSE, vanishes |-> FALSE, before |-> 0],
     [level |-> <<2, 3>>, interval |-> 5, memory |-> "absent", split |-> <<0, 1>>,
      second |-> FALSE, vanishes |-> FALSE, before |-> 0],
     [level |-> <<2, 3>>, interval |-> 5, memory |-> "absent", split |-> <<2, 1>>,
      second |-> FALSE, vanishes |-> TRUE, before |-> 4],
     [level |-> <<1, 1>>, interval |-> 5, memory |-> "absent", split |-> <<>>,
      second |-> FALSE, vanishes |-> FALSE, before |-> 0]}

Loads(n) == {b \in [1..Max2(n - 1, 0) -> {0, 1}] : Changes(b) <= MaxChanges}

\* memory levels (MiB) a series moves between
MemoryLevels == {1, 2, 4, 9}

\* a memory series of n samples through four levels held in turn, flat
\* ("steps") or with every second sample one MiB higher ("zigzag")
MemorySeries(n, knots, texture) ==
    [i \in 1..n |->
        knots[(4 * i + n - 1) \div n]
        + (IF texture = "zigzag" /\ i % 2 = 0 THEN 1 ELSE 0)]

\* a table of one cgroup under a constant CPU load with a memory_current
\* column, sampled every second from elapsed_sec = start on (a file whose
\* first rows were cut has start > 0)
MkMemoryDf(mem, start) ==
    LET n == Len(mem)
        columns == <<ColName("a", "cpu_usage_usec"), ColName("a", "memory_current")>>
    IN  [elapsed_sec |-> [i \in 1..n |-> start + (i - 1)],
         columns |-> columns,
         data |-> [col \in Range(columns) |->
                      IF col[2] = "cpu_usage_usec" THEN [i \in 1..n |-> 3 * (i - 1)]
                      ELSE mem]]

\* rows of a long run: the fingerprint looks for periodicity only in more
\* than 50 samples
LongRows == 50 + 2

\* the load of a long run, interval by interval: pulses of `duty` loaded
\* intervals every `period` intervals, or (period 0) one step up at mid-run
LongLoad(n, wave) ==
    [i \in 1..(n - 1) |->
        IF wave.period = 0 THEN (IF 2 * i > n THEN 1 ELSE 0)
        ELSE IF (i - 1) % wave.period < wave.duty THEN 1 ELSE 0]

Waves ==
    {[period |-> 0, duty |-> 0], [period |-> 4, duty |-> 0],
     [period |-> 4, duty |-> 1], [period |-> 4, duty |-> 2],
     [period |-> 6, duty |-> 1], [period |-> 6, duty |-> 2]}

\* CPU time used before the run started, such that the last cumulative value
\* is a multiple of 10 usec (tenths of it are then whole numbers)
UsedBefore(inc) == (10 - (SumSeq(inc) % 10)) % 10

\* the kinds of long runs: CPU time per interval and user : system split, and
\* the burst columns: absent, present without a burst, or with bursts that
\* took `tenths` tenths of the CPU time
LongKinds ==
    {[level |-> <<0, 50>>, split |-> <<1, 1>>], [level |-> <<0, 60>>, split |-> <<1, 1>>],
     [level |-> <<2, 3>>, split |-> <<2, 1>>]}

BurstKinds ==
    {[columns |-> FALSE, bursts |-> FALSE, tenths |-> 0],
     [columns |-> TRUE, bursts |-> FALSE, tenths |-> 0]}
    \cup {[columns |-> TRUE, bursts |-> TRUE, tenths |-> t] : t \in 0..4}

\* a table of one cgroup sampled every 10 s, full mode of the collector
\* without the memory columns
MkLongDf(n, wave, kind, burst) ==
    LET inc == Increments(LongLoad(n, wave), kind.level)
        usage == Counter(UsedBefore(inc), inc, n)
        columns ==
            <<ColName("a", "cpu_usage_usec"), ColName("a", "cpu_user_usec"),
              ColName("a", "cpu_system_usec")>>
            \o (IF burst.columns
                THEN <<ColName("a", "cpu_nr_bursts"), ColName("a", "cpu_burst_usec")>>
                ELSE <<>>)
        cell(col) ==
            IF col[2] = "cpu_usage_usec" THEN usage
            ELSE IF col[2] = "cpu_user_usec" THEN Scale(usage, kind.split[1])
            ELSE IF col[2] = "cpu_system_usec" THEN Scale(usage, kind.split[2])
            ELSE IF col[2] = "cpu_nr_bursts"
            THEN [i \in 1..n |-> IF burst.bursts THEN i - 1 ELSE 0]
            ELSE [i \in 1..n |-> (burst.tenths * usage[i]) \div 10]
    IN  [elapsed_sec |-> [i \in 1..n |-> (i - 1) * 10],
         columns |-> columns,
         data |-> [col \in Range(columns) |-> cell(col)]]

----------------------------------------------------------------------------
(* The state machine: main() loads one dataset and runs the interpretation    *)
(* block, one call after the other; an exception is not caught and ends the  *)
(* run.  `call` is the call made last, `outcome` what it returned or raised. *)

\* the analysis runs over a file written earlier: no collector is running
CollectorIdle ==
    /\ pc = "none"
    /\ buffer = <<>>
    /\ csv = <<>>
    /\ sample_count = 0
    /\ appended = 0

\* parse_args without options: the four analysis flags default to True
DefaultArgs ==
    [interpret |-> TRUE, advanced_viz |-> TRUE, workload_heatmap |-> TRUE,
     fingerprint |-> TRUE]

\* CgroupAnalyzer.__init__ and CgroupInterpreter.__init__ over a loaded table;
\* statsmodels is installed or not where the analysis runs
Init ==
    /\ \E n \in 0..MaxRows : \E bits \in Loads(n) : \E shape \in Shapes :
           df = MkDf(n, bits, shape)
    /\ cgroups = _detect_cgroups(df)
    /\ has_extended_metrics = _check_extended_metrics(df)
    /\ statsmodels \in BOOLEAN
    /\ args = DefaultArgs
    /\ call = "init"
    /\ outcome = Returned(<<>>)
    /\ CollectorIdle

\* mutant of Call: the analysis drops the first row (the one without a rate)
\* from the shared table
CallDroppingFirstRow(after, name, result) ==
    /\ call = after
    /\ outcome.raised = "none"
    /\ call' = name
    /\ outcome' = result
    /\ df' = [elapsed_sec |-> SubSeq(df.elapsed_sec, 2, Len(df.elapsed_sec)),
              columns |-> df.columns,
              data |-> [col \in DOMAIN df.data |->
                           SubSeq(df.data[col], 2, Len(df.data[col]))]]
    /\ UNCHANGED <<cgroups, has_extended_metrics, statsmodels, args>>
    /\ UNCHANGED collectorVars

\* the statement of main() that follows the call `after`
Call(after, name, result) ==
    /\ call = after
    /\ outcome.raised = "none"
    /\ call' = name
    /\ outcome' = result
    /\ UNCHANGED <<df, cgroups, has_extended_metrics, statsmodels, args>>
    /\ UNCHANGED collectorVars

\* `if args.interpret:` opens the block of the five calls
DetectAnomalies ==
    /\ args.interpret
    /\ Call("init", "detect_anomalies",
            detect_anomalies(df, cgroups, has_extended_metrics))

ClusterAnomalies ==
    Call("detect_anomalies", "cluster_anomalies",
         cluster_anomalies(df, cgroups, has_extended_metrics))

IdentifyUsagePatterns ==
    Call("cluster_anomalies", "identify_usage_patterns",
         identify_usage_patterns(df, cgroups, has_extended_metrics, statsmodels))

\* `if args.fingerprint or args.interpret:` inside the block
FingerprintWorkloadPatterns ==
    /\ TRUE \in {args.fingerprint, args.interpret}
    /\ Call("identify_usage_patterns", "fingerprint_workload_patterns",
            fingerprint_workload_patterns(df, cgroups, has_extended_metrics, statsmodels))

\* generate_insights follows the fingerprints: inside the block args.interpret
\* holds, so the fingerprints are never skipped
GenerateInsights ==
    Call("fingerprint_workload_patterns", "generate_insights",
         generate_insights(df, cgroups, has_extended_metrics, statsmodels))

Next ==
    \/ DetectAnomalies
    \/ ClusterAnomalies
    \/ IdentifyUsagePatterns
    \/ FingerprintWorkloadPatterns
    \/ GenerateInsights

Spec == Init /\ [][Next]_vars

\* the same run over the tables with a varied memory series
InitMemory ==
    /\ \E knots \in [1..4 -> MemoryLevels] :
       \E texture \in {"steps", "zigzag"} :
       \E start \in {0, 100} :
           df = MkMemoryDf(MemorySeries(MaxRows, knots, texture), start)
    /\ cgroups = _detect_cgroups(df)
    /\ has_extended_metrics = _check_extended_metrics(df)
    /\ statsmodels \in BOOLEAN
    /\ args = DefaultArgs
    /\ call = "init"
    /\ outcome = Returned(<<>>)
    /\ CollectorIdle

SpecMemory == InitMemory /\ [][Next]_vars

\* the same run over the long tables
InitLong ==
    /\ \E wave \in Waves : \E kind \in LongKinds : \E burst \in BurstKinds :
           df = MkLongDf(LongRows, wave, kind, burst)
    /\ cgroups = _detect_cgroups(df)
    /\ has_extended_metrics = _check_extended_metrics(df)
    /\ statsmodels \in BOOLEAN
    /\ args = DefaultArgs
    /\ call = "init"
    /\ outcome = Returned(<<>>)
    /\ CollectorIdle

SpecLong == InitLong /\ [][Next]_vars

----------------------------------------------------------------------------
(* Vocabulary of the properties *)

Resources == {"cpu", "memory"}

Rows == Len(df.elapsed_sec)

\* the rate series detect_anomalies examines for a resource of a cgroup
RateSeries(c, res) == IF res = "cpu" THEN CpuRate(df, c) ELSE MemoryRate(df, c)

\* the events detect_anomalies reports for a resource of a cgroup
DetectedEvents(c, res) ==
    LET found == detect_anomalies(df, cgroups, has_extended_metrics).value
    IN  IF c \in DOMAIN found THEN found[c][res] ELSE NoEvents

RECURSIVE Concat(_, _)
Concat(clusters, field) ==
    IF clusters = <<>> THEN <<>>
    ELSE clusters[1][field] \o Concat(Tail(clusters), field)

ReturnedFrom(name) == call = name /\ outcome.raised = "none"

----------------------------------------------------------------------------
\* C1: the clusters cluster_anomalies returns for a cgroup and a resource
\* partition the event list of detect_anomalies: their members, concatenated in
\* cluster order, are exactly the detected events (timestamps, values and
\* severities, in order), and no cluster is empty.
C1_ClustersPartitionEvents ==
    ReturnedFrom("cluster_anomalies") =>
        \A c \in Range(cgroups) : \A res \in Resources :
            LET cl == outcome.value[c][res]
                ev == DetectedEvents(c, res)
            IN  /\ Concat(cl, "timestamps") = ev.timestamps
                /\ Concat(cl, "values") = ev.values
                /\ Concat(cl, "severities") = ev.severity
                /\ \A j \in DOMAIN cl : cl[j].timestamps # <<>>

\* C1 witness: a returned clustering over two cgroups in which a CPU cluster
\* holds several events and a memory cluster exists
C1_Witness ==
    /\ ReturnedFrom("cluster_anomalies")
    /\ Len(cgroups) = 2
    /\ \E c \in Range(cgroups) :
         /\ \E j \in DOMAIN outcome.value[c].cpu :
                Len(outcome.value[c].cpu[j].timestamps) >= 2
         /\ outcome.value[c].memory # <<>>

\* C2: consecutive events share a cluster iff they are less than 10 s apart:
\* inside a cluster successive members are less than 10 s apart, and from one
\* cluster to the next both the member timestamps and the start/end fields are
\* at least 10 s apart; every cluster has start_time <= end_time.
C2_GapRule ==
    ReturnedFrom("cluster_anomalies") =>
        \A c \in Range(cgroups) : \A res \in Resources :
            LET cl == outcome.value[c][res]
            IN  /\ Concat(cl, "timestamps") = DetectedEvents(c, res).timestamps
                /\ \A j \in DOMAIN cl :
                     /\ cl[j].start_time <= cl[j].end_time
                     /\ \A m \in 1..(Len(cl[j].timestamps) - 1) :
                            cl[j].timestamps[m + 1] - cl[j].timestamps[m] < 10
                /\ \A j \in 1..(Len(cl) - 1) :
                     /\ cl[j + 1].timestamps[1] - Last(cl[j].timestamps) >= 10
                     /\ cl[j + 1].start_time - cl[j].end_time >= 10

\* C2 witness: two successive clusters exactly 10 s apart
C2_Witness ==
    /\ ReturnedFrom("cluster_anomalies")
    /\ \E c \in Range(cgroups) : \E j \in 1..(Len(outcome.value[c].cpu) - 1) :
         outcome.value[c].cpu[j + 1].start_time - outcome.value[c].cpu[j].end_time = 10

\* C4: on a dataset of 0 or 1 rows detect_anomalies returns without raising and
\* reports no event for any cgroup and resource.
C4_ShortSeriesNoAnomalies ==
    (call = "detect_anomalies" /\ Rows <= 1) =>
        /\ outcome.raised = "none"
        /\ \A c \in Range(cgroups) : \A res \in Resources :
               \/ c \notin DOMAIN outcome.value
               \/ outcome.value[c][res] = NoEvents

\* C4 witness: detect_anomalies has returned on a one-row dataset with a
\* memory column
C4_Witness ==
    /\ ReturnedFrom("detect_anomalies")
    /\ Rows = 1
    /\ has_extended_metrics
    /\ cgroups # <<>>

\* the examined resources of a cgroup: memory only with extended metrics
Examined == IF has_extended_metrics THEN Resources ELSE {"cpu"}

\* indexes of the events reported at the timestamp of sample i
EventsAt(ev, i) == {k \in DOMAIN ev.timestamps : ev.timestamps[k] = df.elapsed_sec[i]}

\* C5: against upper_bound = Q3 + 1.5 IQR and extreme_bound = Q3 + 3 IQR of the
\* whole rate series, a non-missing sample v has exactly one event, "extreme",
\* iff v > extreme_bound, exactly one event, "high", iff
\* upper_bound < v <= extreme_bound, and none otherwise; a sample with v <= Q3
\* and a missing sample have none.  (q1, q3 are 4 times the quartiles.)
C5_SeverityBands ==
    ReturnedFrom("detect_anomalies") =>
        \A c \in DOMAIN outcome.value : \A res \in Examined :
            LET rate == RateSeries(c, res)
                ev == outcome.value[c][res]
                q1 == Quantile(rate, 1, 4)
                q3 == Quantile(rate, 3, 4)
                iqr == q3 - q1
                extreme(v) == 4 * v > q3 + 3 * iqr
                upper(v) == 8 * v > 2 * q3 + 3 * iqr
            IN  /\ Len(ev.values) = Len(ev.timestamps)
                /\ Len(ev.severity) = Len(ev.timestamps)
                /\ \A k \in DOMAIN ev.timestamps :
                       \E i \in DOMAIN rate : k \in EventsAt(ev, i)
                /\ \A i \in DOMAIN rate :
                     LET v == rate[i]
                         at == EventsAt(ev, i)
                     IN  IF IsNa(v) \/ ~upper(v) \/ 4 * v <= q3
                         THEN at = {}
                         ELSE /\ Cardinality(at) = 1
                              /\ \A k \in at :
                                   /\ ev.values[k] = v
                                   /\ ev.severity[k] =
                                        IF extreme(v) THEN "extreme" ELSE "high"

\* C5 witness: a report holding a "high" event of a series that also has
\* samples without an event
C5_Witness ==
    /\ ReturnedFrom("detect_anomalies")
    /\ \E c \in DOMAIN outcome.value :
         /\ \E k \in DOMAIN outcome.value[c].cpu.severity :
                outcome.value[c].cpu.severity[k] = "high"
         /\ Len(outcome.value[c].cpu.timestamps) < Rows - 1

\* C5 second case, reached separately: an "extreme" event
C5_WitnessExtreme ==
    /\ ReturnedFrom("detect_anomalies")
    /\ \E c \in DOMAIN outcome.value :
         \E k \in DOMAIN outcome.value[c].memory.severity :
             outcome.value[c].memory.severity[k] = "extreme"

\* C6: a resource whose non-missing rate samples are all equal has no event.
C6_FlatSeriesNoAnomalies ==
    ReturnedFrom("detect_anomalies") =>
        \A c \in DOMAIN outcome.value : \A res \in Examined :
            Cardinality(Range(DropNa(RateSeries(c, res)))) <= 1
                => outcome.value[c][res] = NoEvents

\* C6 witness: a flat, non-zero CPU rate over several samples next to a flat
\* memory level
C6_Witness ==
    /\ ReturnedFrom("detect_anomalies")
    /\ has_extended_metrics
    /\ \E c \in DOMAIN outcome.value :
         /\ Rows >= 5
         /\ Range(DropNa(CpuRate(df, c))) \in {{x} : x \in 1..100}
         /\ Cardinality(Range(DropNa(MemoryRate(df, c)))) = 1

\* a CPU rate series of at least 10 samples, constant except for a larger last
\* sample
ConstantThenSpike(rate) ==
    /\ Len(rate) >= 10
    /\ \A i \in 2..(Len(rate) - 1) : rate[i] = rate[2]
    /\ rate[Len(rate)] > rate[2]

\* C7: for such a series detect_anomalies flags exactly the last sample, as
\* "extreme", and cluster_anomalies returns exactly one CPU cluster, whose only
\* member is that event.
C7_SingleSpike ==
    \A c \in Range(cgroups) :
        ConstantThenSpike(CpuRate(df, c)) =>
            LET spike == [timestamps |-> <<Last(df.elapsed_sec)>>,
                          values |-> <<Last(CpuRate(df, c))>>,
                          severity |-> <<"extreme">>]
            IN  /\ ReturnedFrom("detect_anomalies") => outcome.value[c].cpu = spike
                /\ call = "cluster_anomalies" =>
                     /\ outcome.raised = "none"
                     /\ Len(outcome.value[c].cpu) = 1
                     /\ outcome.value[c].cpu[1].timestamps = spike.timestamps
                     /\ outcome.value[c].cpu[1].values = spike.values
                     /\ outcome.value[c].cpu[1].severities = spike.severity

\* C7 witness: the clustering of a series that is 0 except for its last sample
C7_Witness ==
    /\ ReturnedFrom("cluster_anomalies")
    /\ \E c \in Range(cgroups) :
         /\ ConstantThenSpike(CpuRate(df, c))
         /\ CpuRate(df, c)[2] = 0

\* the functions of the engine that main() calls after detect_anomalies
EngineCalls ==
    {"cluster_anomalies", "identify_usage_patterns", "generate_insights",
     "fingerprint_workload_patterns"}

\* C3: on a dataset with at least one row, each of cluster_anomalies,
\* identify_usage_patterns, generate_insights and
\* fingerprint_workload_patterns returns, without raising, a result with an
\* entry for every detected cgroup.
C3_NoFatalPath ==
    (Rows >= 1 /\ call \in EngineCalls) =>
        /\ outcome.raised = "none"
        /\ DOMAIN outcome.value = Range(cgroups)

\* the non-missing CPU rates of a cgroup whose pattern is classified at all
Classified(c) == Len(_safe_column(df, c, "cpu_usage_usec")) > 10

\* cv <= 0.5 over the CPU rate of a classified cgroup
CvStable(c) == Classified(c) /\ ~CvAbove(DropNa(CpuRate(df, c)), 1, 2)

\* the lags 1 .. min(50, n // 2) whose autocorrelation exceeds 0.5
PeriodicLags(c) ==
    {k \in 1..Min2(50, Rows \div 2) : AcfAboveHalf(FillNa(CpuRate(df, c), 0), k)}

\* C8 as stated: a cgroup with cv <= 0.5 is labelled exactly "stable", whatever
\* the autocorrelation step finds.
C8_StableNeverAnnotated ==
    ReturnedFrom("identify_usage_patterns") =>
        \A c \in Range(cgroups) :
            CvStable(c) => outcome.value[c].cpu_pattern = Stable

\* C8 amended: a cgroup with cv <= 0.5 is labelled "stable" when statsmodels
\* is missing or no lag has an autocorrelation above 0.5, and "stable with
\* periodicity (~k samples)", k the smallest such lag, otherwise: the label
\* always starts with "stable".
C8_StableAnnotatedNotReplaced ==
    ReturnedFrom("identify_usage_patterns") =>
        \A c \in Range(cgroups) :
            CvStable(c) =>
                /\ StartsWith(outcome.value[c].cpu_pattern, Stable)
                /\ IF statsmodels /\ PeriodicLags(c) # {}
                   THEN \E k \in PeriodicLags(c) :
                          /\ \A j \in PeriodicLags(c) : k <= j
                          /\ outcome.value[c].cpu_pattern =
                               Stable \o <<" ", "w", "i", "t", "h", " ", "p", "e", "r", "i", "o", "d", "i", "c", "i", "t", "y", " ", "(", "~">> \o Str(k) \o <<" ", "s", "a", "m", "p", "l", "e", "s", ")">>
                   ELSE outcome.value[c].cpu_pattern = Stable

\* C8 witness: a stable cgroup labelled with a periodicity suffix
C8_Witness ==
    /\ ReturnedFrom("identify_usage_patterns")
    /\ \E c \in Range(cgroups) :
         /\ CvStable(c)
         /\ outcome.value[c].cpu_pattern # Stable

\* the label identify_usage_patterns gives the CPU usage of a cgroup
CpuLabel(c) == CpuPattern(df, c, statsmodels)

\* cpu_system_user_ratio > 0.8
RatioAboveFourFifths(fp) ==
    5 * fp.cpu_system_user_ratio.num > 4 * fp.cpu_system_user_ratio.den

\* C9: without detected periodicity, a cgroup whose CPU label is the
\* classifier's "stable" gets a workload_type "Continuous system-intensive"
\* when cpu_system_user_ratio > 0.8 and "Continuous user-intensive" otherwise.
C9_StableIsContinuous ==
    ReturnedFrom("fingerprint_workload_patterns") =>
        \A c \in Range(cgroups) :
            (~outcome.value[c].has_periodicity /\ StartsWith(CpuLabel(c), Stable)) =>
                outcome.value[c].workload_type =
                    IF RatioAboveFourFifths(outcome.value[c])
                    THEN <<"C", "o", "n", "t", "i", "n", "u", "o", "u", "s", " ", "s", "y", "s", "t", "e", "m", "-", "i", "n", "t", "e", "n", "s", "i", "v", "e">>
                    ELSE <<"C", "o", "n", "t", "i", "n", "u", "o", "u", "s", " ", "u", "s", "e", "r", "-", "i", "n", "t", "e", "n", "s", "i", "v", "e">>

\* C10: without detected periodicity, a cgroup whose CPU label is the
\* classifier's "bursty" gets a workload_type starting with "Batch
\* processing", and "Variable ..." is given only to a label that is neither
\* "stable" nor "bursty".
C10_BurstyIsBatch ==
    ReturnedFrom("fingerprint_workload_patterns") =>
        \A c \in Range(cgroups) :
            ~outcome.value[c].has_periodicity =>
                /\ StartsWith(CpuLabel(c), Bursty) =>
                       StartsWith(outcome.value[c].workload_type, <<"B", "a", "t", "c", "h", " ", "p", "r", "o", "c", "e", "s", "s", "i", "n", "g">>)
                /\ StartsWith(outcome.value[c].workload_type, <<"V", "a", "r", "i", "a", "b", "l", "e">>) =>
                       /\ ~StartsWith(CpuLabel(c), Stable)
                       /\ ~StartsWith(CpuLabel(c), Bursty)

----------------------------------------------------------------------------
\* the last cumulative value of a counter of a cgroup
LastOf(c, metric) == Last(_safe_column(df, c, metric))

\* the chain took its 'ratio > 0.8' branch
SystemSide(workload_type) ==
    \/ Contains(workload_type, <<"s", "y", "s", "t", "e", "m", "-", "i", "n", "t", "e", "n", "s", "i", "v", "e">>)
    \/ Contains(workload_type, <<"I", "/", "O", "-", "b", "o", "u", "n", "d">>)

\* C11: cpu_system_user_ratio equals last cpu_system_usec / max(last
\* cpu_user_usec, 1), also when the user time is 0 (the ratio is then the
\* system time), and without periodicity the workload chain takes its
\* 'ratio > 0.8' branch exactly when that quotient exceeds 0.8.
C11_RatioOverMaxUserOne ==
    ReturnedFrom("fingerprint_workload_patterns") =>
        \A c \in Range(cgroups) :
            LET fp == outcome.value[c]
                system == LastOf(c, "cpu_system_usec")
                user == IF LastOf(c, "cpu_user_usec") >= 1
                        THEN LastOf(c, "cpu_user_usec") ELSE 1
            IN  /\ fp.cpu_system_user_ratio.num * user
                     = system * fp.cpu_system_user_ratio.den
                /\ ~fp.has_periodicity =>
                     (SystemSide(fp.workload_type) <=> 5 * system > 4 * user)

\* the non-missing CPU rates of a cgroup
RateValues(c) == DropNa(CpuRate(df, c))

\* n^2 times the sum of the squared deviations from the mean
SqDev(v) ==
    SumSeq([i \in DOMAIN v |-> (Len(v) * v[i] - SumSeq(v)) * (Len(v) * v[i] - SumSeq(v))])

\* cv = std / mean > p / q, cv being 0 when the mean is not positive:
\*   cv^2 = SqDev / ((n - 1) S^2)
CvExceeds(v, p, q) ==
    /\ SumSeq(v) > 0
    /\ q * q * SqDev(v) > p * p * (Len(v) - 1) * SumSeq(v) * SumSeq(v)

\* more than 10% of the samples exceed twice the mean
TenthAboveTwiceMean(v) ==
    10 * Cardinality({i \in DOMAIN v : Len(v) * v[i] > 2 * SumSeq(v)}) > Rows

\* C12: with 11 samples or more the CPU label is "bursty" when cv > 1.5 and
\* more than 10% of the samples exceed 2 * mean, "variable" when cv > 1.5
\* otherwise, "moderate variability" when 0.5 < cv <= 1.5, and "stable" when
\* cv <= 0.5, cv being 0 when the mean is not positive (so an idle cgroup is
\* "stable").
C12_CvClassification ==
    ReturnedFrom("identify_usage_patterns") =>
        \A c \in Range(cgroups) :
            Rows >= 11 =>
                LET v == RateValues(c)
                    label == outcome.value[c].cpu_pattern
                IN  /\ StartsWith(label,
                          IF CvExceeds(v, 3, 2)
                          THEN IF TenthAboveTwiceMean(v) THEN Bursty ELSE Variable
                          ELSE IF CvExceeds(v, 1, 2) THEN ModerateVariability
                          ELSE Stable)
                    /\ SumSeq(v) <= 0 => StartsWith(label, Stable)

\* C12 witness: a cgroup with cv > 1.5 whose samples above twice the mean are
\* too few, labelled "variable"
C12_Witness ==
    /\ ReturnedFrom("identify_usage_patterns")
    /\ \E c \in Range(cgroups) :
         /\ CvExceeds(RateValues(c), 3, 2)
         /\ ~TenthAboveTwiceMean(RateValues(c))
         /\ outcome.value[c].cpu_pattern = Variable

----------------------------------------------------------------------------
\* the memory series (MiB) of a cgroup
MemoryOf(c) == _safe_column(df, c, "memory_current")

\* the series is classified: extended metrics and 11 samples or more
MemoryClassified == has_extended_metrics /\ Rows >= 11

\* last > 1.5 * first
EndsHigh(mem) == 2 * mem[Len(mem)] > 3 * mem[1]

\* last < 0.5 * first
EndsLow(mem) == 2 * mem[Len(mem)] < mem[1]

\* max > 2 * mean
HasSpike(mem) == \E i \in DOMAIN mem : Len(mem) * mem[i] > 2 * SumSeq(mem)

\* successive differences of opposite sign number more than 40% of the samples
ManyTurns(mem) ==
    5 * Cardinality({i \in 3..Len(mem) :
            (mem[i] - mem[i - 1]) * (mem[i - 1] - mem[i - 2]) < 0}) > 2 * Len(mem)

\* C13: the memory label follows the tree in its order, the first match
\* winning: last > 1.5 first gives an "increasing" label, else last < 0.5
\* first gives "decreasing", else max > 2 mean gives "spike patterns", else
\* many sign changes give "oscillating", else "stable"; a series that ends
\* high and has a spike is "increasing".
C13_MemoryTreeOrder ==
    (ReturnedFrom("identify_usage_patterns") /\ MemoryClassified) =>
        \A c \in Range(cgroups) :
            LET mem == MemoryOf(c)
                label == outcome.value[c].memory_pattern
            IN  label =
                  IF EndsHigh(mem)
                  THEN (IF label = RapidlyIncreasing THEN RapidlyIncreasing
                        ELSE GraduallyIncreasing)
                  ELSE IF EndsLow(mem) THEN Decreasing
                  ELSE IF HasSpike(mem) THEN SpikePatterns
                  ELSE IF ManyTurns(mem) THEN Oscillating
                  ELSE Stable

\* C13 witness: a series that ends above 1.5 times its first value and has a
\* spike above twice its mean
C13_Witness ==
    /\ ReturnedFrom("identify_usage_patterns")
    /\ MemoryClassified
    /\ \E c \in Range(cgroups) :
         /\ EndsHigh(MemoryOf(c))
         /\ HasSpike(MemoryOf(c))
         /\ Contains(outcome.value[c].memory_pattern, <<"i", "n", "c", "r", "e", "a", "s", "i", "n", "g">>)

\* C14: a series that ends above 1.5 times its first value is "rapidly
\* increasing" iff the MiB gained from the first to the last sample, divided
\* by the seconds elapsed from the first to the last sample, exceed 0.5, and
\* "gradually increasing" otherwise, whatever the first elapsed_sec is.
C14_AverageGrowthRate ==
    (ReturnedFrom("identify_usage_patterns") /\ MemoryClassified) =>
        \A c \in Range(cgroups) :
            LET mem == MemoryOf(c)
                gained == mem[Len(mem)] - mem[1]
                seconds == df.elapsed_sec[Rows] - df.elapsed_sec[1]
            IN  EndsHigh(mem) =>
                    outcome.value[c].memory_pattern =
                        IF 2 * gained > seconds THEN RapidlyIncreasing
                        ELSE GraduallyIncreasing

----------------------------------------------------------------------------
\* what identify_usage_patterns gives on the loaded table, called at any time
Identified ==
    identify_usage_patterns(df, cgroups, has_extended_metrics, statsmodels)

\* C15: identify_usage_patterns, on any loaded table (before main calls it and
\* when it does), never raises; cpu_pattern is "unknown" with
\* fewer than 11 samples and never "unknown" with 11 or more; memory_pattern
\* is "unknown" with fewer than 11 samples or without extended metrics.
C15_UnknownBelowElevenSamples ==
    call \in {"init", "identify_usage_patterns"} =>
        /\ Identified.raised = "none"
        /\ call = "identify_usage_patterns" => outcome = Identified
        /\ \A c \in Range(cgroups) :
             /\ (Identified.value[c].cpu_pattern = Unknown) <=> Rows < 11
             /\ (Rows < 11 \/ ~has_extended_metrics) =>
                    Identified.value[c].memory_pattern = Unknown

\* C15 witness: identify_usage_patterns has returned on a table of 10 rows
\* with a memory column
C15_Witness ==
    /\ ReturnedFrom("identify_usage_patterns")
    /\ Rows = 10
    /\ has_extended_metrics
    /\ \A c \in Range(cgroups) :
         /\ outcome.value[c].cpu_pattern = Unknown
         /\ outcome.value[c].memory_pattern = Unknown

----------------------------------------------------------------------------
BurstHeavy == <<" ", "(", "b", "u", "r", "s", "t", "-", "h", "e", "a", "v", "y", ")">>

EndsWith(t, suffix) ==
    /\ Len(t) >= Len(suffix)
    /\ SubSeq(t, Len(t) - Len(suffix) + 1, Len(t)) = suffix

\* the label the workload chain chose, before the burst-heavy suffix
ChainLabel(workload_type) ==
    IF EndsWith(workload_type, BurstHeavy)
    THEN SubSeq(workload_type, 1, Len(workload_type) - Len(BurstHeavy))
    ELSE workload_type

\* C16: when the fingerprint detects periodicity (has_periodicity with a
\* dominant lag > 0) the workload chain gives "Periodic", with " with bursts"
\* appended iff burstiness > 5, whatever the CPU label and the system/user
\* ratio are (the label is read before the burst-heavy suffix of C18).
C16_PeriodicFirst ==
    ReturnedFrom("fingerprint_workload_patterns") =>
        \A c \in Range(cgroups) :
            LET fp == outcome.value[c]
            IN  (fp.has_periodicity /\ fp.dominant_period_lag > 0) =>
                    ChainLabel(fp.workload_type) =
                        IF fp.burstiness.num > 5 * fp.burstiness.den
                        THEN <<"P", "e", "r", "i", "o", "d", "i", "c", " ", "w", "i", "t", "h", " ", "b", "u", "r", "s", "t", "s">>
                        ELSE <<"P", "e", "r", "i", "o", "d", "i", "c">>

\* C16 witness: a periodic cgroup labelled "bursty" with a system/user ratio
\* above 0.8 and a burstiness above 5
C16_Witness ==
    /\ ReturnedFrom("fingerprint_workload_patterns")
    /\ \E c \in Range(cgroups) :
         /\ outcome.value[c].has_periodicity
         /\ outcome.value[c].burstiness.num > 5 * outcome.value[c].burstiness.den
         /\ RatioAboveFourFifths(outcome.value[c])
         /\ StartsWith(CpuLabel(c), Bursty)

----------------------------------------------------------------------------
\* the cpu_nr_bursts column of a cgroup never holds a nonzero value
NeverBursts(c) == \A i \in 1..Rows : _safe_column(df, c, "cpu_nr_bursts")[i] = 0

\* last cumulative burst time and max(last cumulative usage, 1)
BurstTime(c) == LastOf(c, "cpu_burst_usec")

UsageTime(c) == IF LastOf(c, "cpu_usage_usec") >= 1 THEN LastOf(c, "cpu_usage_usec") ELSE 1

\* C17: cpu_burst_tendency is "N/A" with a cpu_burst_score of 0 iff the
\* cgroup's cpu_nr_bursts never holds a nonzero value; otherwise the score is
\* burst% = last cpu_burst_usec / max(last cpu_usage_usec, 1) * 100 and the
\* tendency is "High" if burst% > 30, "Moderate" if 10 < burst% <= 30 and
\* "Low" if burst% <= 10.
C17_BurstTendency ==
    ReturnedFrom("fingerprint_workload_patterns") =>
        \A c \in Range(cgroups) :
            LET fp == outcome.value[c]
            IN  /\ (fp.cpu_burst_tendency = "N/A" /\ fp.cpu_burst_score.num = 0)
                       <=> NeverBursts(c)
                /\ ~NeverBursts(c) =>
                     /\ fp.cpu_burst_score.num * UsageTime(c)
                            = 100 * BurstTime(c) * fp.cpu_burst_score.den
                     /\ fp.cpu_burst_tendency =
                            IF 100 * BurstTime(c) > 30 * UsageTime(c)
                            THEN "High burst utilization"
                            ELSE IF 100 * BurstTime(c) > 10 * UsageTime(c)
                            THEN "Moderate burst utilization"
                            ELSE "Low burst utilization"

\* C17 witness: a cgroup whose bursts took exactly 30% of its CPU time,
\* reported "Moderate"
C17_Witness ==
    /\ ReturnedFrom("fingerprint_workload_patterns")
    /\ \E c \in Range(cgroups) :
         /\ ~NeverBursts(c)
         /\ BurstTime(c) > 0
         /\ 100 * BurstTime(c) = 30 * UsageTime(c)
         /\ outcome.value[c].cpu_burst_tendency = "Moderate burst utilization"

\* C18: workload_type ends with " (burst-heavy)" iff the cgroup reported a
\* nonzero burst count, its cumulative burst time exceeds 30% of its
\* cumulative usage time, and the label chosen before the suffix does not
\* contain "burst" in any letter case; the suffix is appended at most once.
C18_BurstHeavySuffix ==
    ReturnedFrom("fingerprint_workload_patterns") =>
        \A c \in Range(cgroups) :
            LET label == outcome.value[c].workload_type
            IN  /\ EndsWith(label, BurstHeavy) <=>
                     /\ ~NeverBursts(c)
                     /\ 100 * BurstTime(c) > 30 * UsageTime(c)
                     /\ ~Contains(Lower(ChainLabel(label)), <<"b", "u", "r", "s", "t">>)
                /\ ~EndsWith(ChainLabel(label), BurstHeavy)

\* C18 witness: "Periodic with bursts" left without the suffix although the
\* bursts took more than 30% of the CPU time
C18_Witness ==
    /\ ReturnedFrom("fingerprint_workload_patterns")
    /\ \E c \in Range(cgroups) :
         /\ ~NeverBursts(c)
         /\ 100 * BurstTime(c) > 30 * UsageTime(c)
         /\ outcome.value[c].workload_type = <<"P", "e", "r", "i", "o", "d", "i", "c", " ", "w", "i", "t", "h", " ", "b", "u", "r", "s", "t", "s">>

\* C19: the fingerprint's burstiness, p95(rate) / max(median(rate), 0.001),
\* is >= 0 for every cgroup of every dataset.
C19_BurstinessNonNegative ==
    ReturnedFrom("fingerprint_workload_patterns") =>
        \A c \in Range(cgroups) :
            /\ outcome.value[c].burstiness.den > 0
            /\ outcome.value[c].burstiness.num >= 0

\* the table has no "{cgroup}_memory_current" column
NoMemoryColumn == \A col \in Range(df.columns) : col[2] # "memory_current"

\* the messages of generate_insights' memory block
MemoryMessages ==
    {"High number of memory anomalies detected",
     "Memory usage is high and increasing",
     "Memory usage is increasing",
     "Memory usage is increasing. No memory limit set",
     "Memory usage shows spike patterns"}

\* C20: without any memory_current column the extended-metrics flag is false
\* and, for every cgroup, the memory anomaly lists are empty, the memory
\* cluster list is empty, memory_pattern is "unknown", the fingerprint's
\* memory_behavior is "N/A", no memory insight is produced, and no call of
\* the run raises.
C20_NoMemoryColumn ==
    NoMemoryColumn =>
        /\ ~has_extended_metrics
        /\ outcome.raised = "none"
        /\ \A c \in Range(cgroups) \cap DOMAIN outcome.value :
             LET entry == outcome.value[c]
             IN  /\ call = "detect_anomalies" =>
                       /\ entry.memory.timestamps = <<>>
                       /\ entry.memory.values = <<>>
                       /\ entry.memory.severity = <<>>
                 /\ call = "cluster_anomalies" => entry.memory = <<>>
                 /\ call = "identify_usage_patterns" => entry.memory_pattern = Unknown
                 /\ call = "fingerprint_workload_patterns" => entry.memory_behavior = "N/A"
                 /\ call = "generate_insights" => Range(entry) \cap MemoryMessages = {}

\* the messages of the diagnostic rules that fire for a cgroup
RulesFired(c) ==
    CpuInsights(Len(DetectedEvents(c, "cpu").timestamps),
                Lower(Identified.value[c].cpu_pattern))
    \o BurstInsights(df, c)
    \o (IF has_extended_metrics
        THEN MemoryInsights(df, c, Len(DetectedEvents(c, "memory").timestamps),
                            Identified.value[c].memory_pattern)
        ELSE <<>>)

----------------------------------------------------------------------------
(* Tables with an empty cell *)

\* the table d with the cell (row, col) empty: read_csv loads it as NaN
Blanked(d, col, row) ==
    [d EXCEPT !.data[col] = [@ EXCEPT ![row] = NaN]]

\* the same run over short tables with one empty cell
InitCells ==
    /\ \E n \in 1..MaxBlankRows : \E bits \in Loads(n) : \E shape \in Shapes :
       \E row \in 1..n :
           LET d == MkDf(n, bits, shape)
           IN  \E col \in Range(d.columns) : df = Blanked(d, col, row)
    /\ cgroups = _detect_cgroups(df)
    /\ has_extended_metrics = _check_extended_metrics(df)
    /\ statsmodels \in BOOLEAN
    /\ args = DefaultArgs
    /\ call = "init"
    /\ outcome = Returned(<<>>)
    /\ CollectorIdle

SpecCells == InitCells /\ [][Next]_vars

\* cgroup and metric names asked of _safe_column: those of the tables, a
\* cgroup and metrics no table has
AskedCgroups == {"a", "b", "c"}

AskedMetrics ==
    {"cpu_usage_usec", "cpu_user_usec", "cpu_system_usec", "cpu_nr_bursts",
     "memory_current", "memory_max"}

\* C22: _safe_column returns, for any (cgroup, metric), a series of the
\* dataset's length: all zeros when the column is absent, and otherwise the
\* column with its missing cells replaced by 0 and every other cell unchanged.
C22_SafeColumn ==
    \A c \in AskedCgroups : \A m \in AskedMetrics :
        LET s == _safe_column(df, c, m)
        IN  /\ DOMAIN s = 1..Rows
            /\ \A i \in 1..Rows :
                 s[i] = IF ColName(c, m) \notin Range(df.columns) THEN 0
                        ELSE IF df.data[ColName(c, m)][i] = NaN THEN 0
                        ELSE df.data[ColName(c, m)][i]

\* C22 witness: the analyses have run over a table with an empty cell in a
\* column that has a nonzero cell too, and another column is absent
C22_Witness ==
    /\ call = "detect_anomalies"
    /\ \E col \in Range(df.columns) :
         /\ NaN \in Range(df.data[col])
         /\ \E x \in Range(df.data[col]) : x > 0
         /\ NaN \notin Range(_safe_column(df, col[1], col[2]))
    /\ ColName("a", "cpu_nr_bursts") \notin Range(df.columns)

----------------------------------------------------------------------------
\* the keys of a returned dict in insertion order: every analysis fills its
\* dict inside `for cgroup in self.cgroups`
KeysOf(value) == SelectSeq(cgroups, LAMBDA c : c \in DOMAIN value)

\* the cgroup names that have a cpu_usage_usec column
DetectedNames == {col[1] : col \in {x \in Range(df.columns) : x[2] = "cpu_usage_usec"}}

\* the table with its columns in the opposite order
ColumnsReversed == [df EXCEPT !.columns = Reverse(df.columns)]

\* C23: every output of the engine lists the cgroups in the sorted order of
\* the names detected from the cpu_usage_usec columns, each detected cgroup
\* exactly once, whatever the order of the table's columns.
C23_SortedCgroupOrder ==
    /\ _detect_cgroups(ColumnsReversed) = cgroups
    /\ (call # "init" /\ outcome.raised = "none") =>
           /\ Range(KeysOf(outcome.value)) = DetectedNames
           /\ Len(KeysOf(outcome.value)) = Cardinality(DetectedNames)
           /\ \A i, j \in DOMAIN KeysOf(outcome.value) :
                  i < j => NameRank[KeysOf(outcome.value)[i]]
                               < NameRank[KeysOf(outcome.value)[j]]

----------------------------------------------------------------------------
\* what the operation `name` returns on a fresh interpreter over the table d
FreshResult(name, d) ==
    LET cgs == _detect_cgroups(d)
        ext == _check_extended_metrics(d)
    IN  CASE name = "detect_anomalies" -> detect_anomalies(d, cgs, ext)
          [] name = "cluster_anomalies" -> cluster_anomalies(d, cgs, ext)
          [] name = "identify_usage_patterns" ->
                 identify_usage_patterns(d, cgs, ext, statsmodels)
          [] name = "fingerprint_workload_patterns" ->
                 fingerprint_workload_patterns(d, cgs, ext, statsmodels)
          [] name = "generate_insights" -> generate_insights(d, cgs, ext, statsmodels)

----------------------------------------------------------------------------
(* The command line *)

\* the values parse_args can give the four analysis flags (--flag / --no-flag)
Flags ==
    [interpret : BOOLEAN, advanced_viz : BOOLEAN, workload_heatmap : BOOLEAN,
     fingerprint : BOOLEAN]

\* the same run under every combination of the flags, over short tables
InitFlags ==
    /\ \E n \in 2..MaxBlankRows : \E bits \in Loads(n) : \E shape \in Shapes :
           df = MkDf(n, bits, shape)
    /\ cgroups = _detect_cgroups(df)
    /\ has_extended_metrics = _check_extended_metrics(df)
    /\ statsmodels \in BOOLEAN
    /\ args \in Flags
    /\ call = "init"
    /\ outcome = Returned(<<>>)
    /\ CollectorIdle

SpecFlags == InitFlags /\ [][Next]_vars

\* main has no further call of the engine to make
BlockOver == ~ENABLED Next

\* the fingerprints were generated in this run
FingerprintsRun == call \in {"fingerprint_workload_patterns", "generate_insights"}

\* C25: whatever the other flags, main runs fingerprint_workload_patterns when
\* the fingerprint flag is enabled and does not run it under --no-fingerprint.
C25_FingerprintFlag ==
    /\ FingerprintsRun => args.fingerprint
    /\ (BlockOver /\ args.fingerprint) => FingerprintsRun

----------------------------------------------------------------------------
\* C26: a cgroup whose memory pattern identify_usage_patterns classifies as
\* rapidly growing gets the fingerprint memory_behavior "Memory leaking",
\* before the "Static memory" and allocation-balance checks.
C26_RapidGrowthIsLeak ==
    ReturnedFrom("fingerprint_workload_patterns") =>
        \A c \in Range(cgroups) :
            Identified.value[c].memory_pattern = RapidlyIncreasing =>
                outcome.value[c].memory_behavior = "Memory leaking"

----------------------------------------------------------------------------
\* the rate of cgroup c is constant at a level L > 0 and then steps to 2 L,
\* where it stays until the end of the run; `post` samples follow the step
ShiftAfter(c, post) ==
    LET v == RateValues(c)
        n == Len(v)
    IN  /\ post >= 1
        /\ n - post >= 1
        /\ v[1] > 0
        /\ \A i \in 1..n : v[i] = IF i <= n - post THEN v[1] ELSE 2 * v[1]

\* the timestamps of the samples after the step (the rate of row 1 is missing)
PostShiftTimes(post) ==
    {df.elapsed_sec[i] : i \in (Rows - post + 1)..Rows}

\* the timestamps detect_anomalies reports for the CPU rate of c
FlaggedTimes(c) == Range(outcome.value[c].cpu.timestamps)

\* C27 as stated: after a permanent shift from L to 2 L every sample after the
\* step is flagged, however long the post-shift segment is.
C27_ShiftAlwaysFlagged ==
    ReturnedFrom("detect_anomalies") =>
        \A c \in Range(cgroups) : \A post \in 1..Rows :
            ShiftAfter(c, post) => PostShiftTimes(post) \subseteq FlaggedTimes(c)

\* C27 amended: the post-shift samples are flagged, all of them and only they,
\* while they are at most a quarter of the rate samples; once they are more,
\* the whole-series bounds have moved with them and no sample is flagged.
C27_ShiftFlaggedWhileShort ==
    ReturnedFrom("detect_anomalies") =>
        \A c \in Range(cgroups) : \A post \in 1..Rows :
            ShiftAfter(c, post) =>
                FlaggedTimes(c) = IF 4 * post <= Len(RateValues(c))
                                  THEN PostShiftTimes(post) ELSE {}

\* C27 witness: a shift whose post-shift segment is exactly a quarter of the
\* samples (flagged), and the side of it: see C27_WitnessAdapted
C27_Witness ==
    /\ ReturnedFrom("detect_anomalies")
    /\ \E c \in Range(cgroups) : \E post \in 2..Rows :
         /\ ShiftAfter(c, post)
         /\ 4 * post = Len(RateValues(c))
         /\ FlaggedTimes(c) = PostShiftTimes(post)

\* a shift whose post-shift segment is just over a quarter of the samples:
\* nothing is flagged
C27_WitnessAdapted ==
    /\ ReturnedFrom("detect_anomalies")
    /\ \E c \in Range(cgroups) : \E post \in 2..Rows :
         /\ ShiftAfter(c, post)
         /\ 4 * post = Len(RateValues(c)) + 1
         /\ FlaggedTimes(c) = {}

----------------------------------------------------------------------------
\* the clusters cluster_anomalies returned, over all cgroups and resources
ReturnedClusters ==
    UNION {Range(outcome.value[c][res]) : c \in Range(cgroups), res \in Resources}

\* the members of cluster k are events first + 1, ..., first + Len of the
\* list ev, each with its timestamp, value and severity
MembersFrom(k, ev, first) ==
    \A i \in DOMAIN k.timestamps :
        /\ first + i \in DOMAIN ev.timestamps
        /\ k.timestamps[i] = ev.timestamps[first + i]
        /\ k.values[i] = ev.values[first + i]
        /\ k.severities[i] = ev.severity[first + i]

\* C28: in every cluster returned by cluster_anomalies start_time is the
\* timestamp of the first member and end_time that of the last,
\* start_time <= end_time, max_value is the maximum of the member values, and
\* the timestamps, values and severities lists have the same length and hold
\* the fields of the same event at the same index.
C28_ClusterFields ==
    ReturnedFrom("cluster_anomalies") =>
        \A c \in Range(cgroups) : \A res \in Resources :
            \A k \in Range(outcome.value[c][res]) :
                /\ Len(k.timestamps) >= 1
                /\ Len(k.values) = Len(k.timestamps)
                /\ Len(k.severities) = Len(k.timestamps)
                /\ k.start_time = k.timestamps[1]
                /\ k.end_time = k.timestamps[Len(k.timestamps)]
                /\ k.start_time <= k.end_time
                /\ k.max_value \in Range(k.values)
                /\ \A v \in Range(k.values) : v <= k.max_value
                /\ \E first \in 0..Len(DetectedEvents(c, res).timestamps) :
                       MembersFrom(k, DetectedEvents(c, res), first)

\* C28 witness: a cluster of several members whose largest value is not the
\* first member's
C28_Witness ==
    /\ ReturnedFrom("cluster_anomalies")
    /\ \E k \in ReturnedClusters :
         /\ Len(k.timestamps) >= 2
         /\ k.start_time < k.end_time
         /\ k.max_value > k.values[1]

----------------------------------------------------------------------------
\* cgroup c has no memory_current column while another cgroup has one
BorrowsFlag(c) ==
    /\ ColName(c, "memory_current") \notin Range(df.columns)
    /\ \E o \in Range(cgroups) \ {c} : ColName(o, "memory_current") \in Range(df.columns)

\* C29: in a dataset of at least 11 samples, a cgroup without a
\* memory_current column of its own, next to a cgroup that has one, is
\* reported with memory_pattern "stable", memory_behavior "Static memory" and
\* no memory anomaly.
C29_FlagIsDatasetWide ==
    \A c \in Range(cgroups) :
        (Rows >= 11 /\ BorrowsFlag(c) /\ call # "init") =>
            /\ outcome.raised = "none"
            /\ call = "detect_anomalies" => outcome.value[c].memory = NoEvents
            /\ call = "cluster_anomalies" => outcome.value[c].memory = <<>>
            /\ call = "identify_usage_patterns" =>
                   outcome.value[c].memory_pattern = Stable
            /\ call = "fingerprint_workload_patterns" =>
                   outcome.value[c].memory_behavior = "Static memory"

\* C29 witness: the fingerprint of such a cgroup, whose neighbour's memory
\* is reported differently
C29_Witness ==
    /\ ReturnedFrom("fingerprint_workload_patterns")
    /\ Rows >= 11
    /\ \E c, o \in Range(cgroups) :
         /\ BorrowsFlag(c)
         /\ ColName(o, "memory_current") \in Range(df.columns)
         /\ outcome.value[c].memory_behavior = "Static memory"
         /\ outcome.value[o].memory_behavior # "Static memory"
         /\ Identified.value[c].memory_pattern = Stable

----------------------------------------------------------------------------
(* monitor_stats/monitor_cgroup_stats.main: the sampling loop.  A row is     *)
(* named by its place in the order of collection.  KeyboardInterrupt can be  *)
(* raised between any two statements of the try block, once.                 *)

\* `if len(buffer) >= 100`
FLUSH_THRESHOLD == 100

\* no analysis is running while the collector samples
AnalyzerIdle ==
    /\ df = [elapsed_sec |-> <<>>, columns |-> <<>>, data |-> <<>>]
    /\ cgroups = <<>>
    /\ has_extended_metrics = FALSE
    /\ statsmodels = FALSE
    /\ args = DefaultArgs
    /\ call = "none"
    /\ outcome = Returned(<<>>)

analyzerVars == <<df, cgroups, has_extended_metrics, statsmodels, args, call, outcome>>

\* start_time, end_time, sample_count = 0, buffer = [] and the opened file
InitCollector ==
    /\ AnalyzerIdle
    /\ pc = "while"
    /\ buffer = <<>>
    /\ csv = <<>>
    /\ sample_count = 0
    /\ appended = 0

\* a statement of the loop that touches neither the buffer nor the file
Goto(from, to) ==
    /\ pc = from
    /\ pc' = to
    /\ UNCHANGED <<buffer, csv, sample_count, appended, analyzerVars>>

\* `if now >= end_time: break`: the duration is over
Break == Goto("while", "finally")

\* the duration is not over: the row is built from the cgroup files
Collect ==
    /\ sample_count < MaxSamples
    /\ Goto("while", "append")

\* buffer.append(row)
AppendRow ==
    /\ pc = "append"
    /\ buffer' = Append(buffer, appended + 1)
    /\ appended' = appended + 1
    /\ pc' = "count"
    /\ UNCHANGED <<csv, sample_count, analyzerVars>>

\* sample_count += 1
Count ==
    /\ pc = "count"
    /\ sample_count' = sample_count + 1
    /\ pc' = "test"
    /\ UNCHANGED <<buffer, csv, appended, analyzerVars>>

\* `if len(buffer) >= 100: flush_buffer()`, up to `if buffer:` inside it
TestBuffer ==
    /\ pc = "test"
    /\ pc' = IF Len(buffer) >= FLUSH_THRESHOLD /\ buffer # <<>> THEN "writerows" ELSE "sleep"
    /\ UNCHANGED <<buffer, csv, sample_count, appended, analyzerVars>>

\* writer.writerows(buffer) runs to its end
WriteRows ==
    /\ pc = "writerows"
    /\ csv' = csv \o buffer
    /\ pc' = "clear"
    /\ UNCHANGED <<buffer, sample_count, appended, analyzerVars>>

\* buffer.clear()
ClearBuffer ==
    /\ pc = "clear"
    /\ buffer' = <<>>
    /\ pc' = "sleep"
    /\ UNCHANGED <<csv, sample_count, appended, analyzerVars>>

\* the sleep until the next sample
Sleep == Goto("sleep", "while")

\* the statements of the try block
InTry == {"while", "append", "count", "test", "writerows", "clear", "sleep"}

\* KeyboardInterrupt between two statements of the try block
Interrupt ==
    /\ pc \in InTry
    /\ pc' = "except"
    /\ UNCHANGED <<buffer, csv, sample_count, appended, analyzerVars>>

\* KeyboardInterrupt inside writer.writerows, which writes row after row:
\* the first k rows of the buffer are in the file and the buffer is as it was
InterruptWriteRows ==
    /\ pc = "writerows"
    /\ \E k \in 1..(Len(buffer) - 1) : csv' = csv \o SubSeq(buffer, 1, k)
    /\ pc' = "except"
    /\ UNCHANGED <<buffer, sample_count, appended, analyzerVars>>

\* `except KeyboardInterrupt:` prints and falls into finally
Except == Goto("except", "finally")

\* finally: flush_buffer()
FinallyFlush ==
    /\ pc = "finally"
    /\ csv' = csv \o buffer
    /\ buffer' = <<>>
    /\ pc' = "close"
    /\ UNCHANGED <<sample_count, appended, analyzerVars>>

\* csvfile.close()
Close == Goto("close", "done")

NextCollector ==
    \/ Break
    \/ Collect
    \/ AppendRow
    \/ Count
    \/ TestBuffer
    \/ WriteRows
    \/ ClearBuffer
    \/ Sleep
    \/ Interrupt
    \/ InterruptWriteRows
    \/ Except
    \/ FinallyFlush
    \/ Close

SpecCollector == InitCollector /\ [][NextCollector]_vars

\* C30: when the collector has closed the file, whether the duration elapsed
\* or a KeyboardInterrupt arrived at any point of the loop, the file holds
\* every row that was put in the buffer exactly once and in collection order,
\* and the number of rows written equals sample_count.
C30_EveryRowWrittenOnce ==
    pc = "done" =>
        /\ csv = [i \in 1..appended |-> i]
        /\ Len(csv) = sample_count

====
